---- MODULE Spec2Model ----
(***************************************************************************)
(* Model of gemini-qa-agent/server.py: the tool dispatcher (call_tool),    *)
(* its six handlers and the external assistant invoker                     *)
(* (run_gemini_command).                                                    *)
(*                                                                         *)
(* Text is modelled as a sequence of string tokens.  A literal of the      *)
(* source is one token (or a few, where a claim speaks of a substring of   *)
(* it), an interpolated value contributes its own tokens.  Paths are       *)
(* token sequences in which "/" and "." are tokens of their own, so that   *)
(* os.path.basename, os.path.splitext and the substring tests on PATH are  *)
(* computed as python computes them.  Path components are chosen so that   *)
(* none is a substring of another: token containment then coincides with   *)
(* character containment.                                                  *)
(*                                                                         *)
(* Emoji cannot be written in a TLA+ string; each is named by its code     *)
(* point.                                                                   *)
(***************************************************************************)
EXTENDS Naturals, Integers, Sequences, FiniteSets, TLC

VARIABLES
    environ_PATH,   \* os.environ['PATH'] of the server process (None: unset)
    home,           \* what os.path.expanduser('~') expands to
    executables,    \* files that exist and pass os.access(X_OK)
    plainfiles,     \* files that exist but are not executable
    tests_dir,      \* ./tests: "absent" or "dir"
    pc,             \* "idle": waiting for a call; "done": a call has finished
    name,           \* tool name of the call
    arguments,      \* argument mapping of the call
    io,             \* what the call observed of files and of the child
    dispatched,     \* the handler call_tool dispatched to, or None
    outcome,        \* what call_tool gave the protocol layer
    invocations,    \* the run_gemini_command calls of this call, in order
    written,        \* the file this call wrote: <<path, content>>, or <<>>
    audit_results   \* security_audit's list of per-file entries at its return

vars == <<environ_PATH, home, executables, plainfiles, tests_dir, pc, name,
          arguments, io, dispatched, outcome, invocations, written,
          audit_results>>

\* python's None, where a string or a path is expected
None == <<"None">>

\* no exception
NoExc == "-"

---------------------------------------------------------------------------
(* Glyphs *)
CHECK_MARK  == "U+2705"
CROSS_MARK  == "U+274C"
ALARM_CLOCK == "U+23F0"
FILE_FOLDER == "U+1F4C1"

---------------------------------------------------------------------------
(* Strings as token sequences *)

\* python's  needle in hay
IsSubstr(needle, hay) ==
    \E i \in 0..(Len(hay) - Len(needle)) :
        SubSeq(hay, i + 1, i + Len(needle)) = needle

\* python's  s.rfind(tok)  as a 1-based position, 0 when absent
RFind(s, tok) ==
    LET hits == {i \in 1..Len(s) : s[i] = tok}
    IN  IF hits = {} THEN 0 ELSE CHOOSE i \in hits : \A j \in hits : j <= i

\* python's  s.split(sep)  for a one-token separator
RECURSIVE SplitAt(_, _, _)
SplitAt(s, sep, cur) ==
    IF s = <<>> THEN <<cur>>
    ELSE IF Head(s) = sep THEN <<cur>> \o SplitAt(Tail(s), sep, <<>>)
    ELSE SplitAt(Tail(s), sep, Append(cur, Head(s)))

Split(s, sep) == SplitAt(s, sep, <<>>)

\* python's  sep.join(parts)
RECURSIVE Join(_, _)
Join(sep, parts) ==
    IF parts = <<>> THEN <<>>
    ELSE IF Len(parts) = 1 THEN parts[1]
    ELSE parts[1] \o sep \o Join(sep, Tail(parts))

\* str(n) of a small number, as one token
Str(n) == ToString(n)

---------------------------------------------------------------------------
(* run_gemini_command *)

npm_bin_path == <<"/", "home", "/", "user", "/", ".npm-global", "/", "bin">>

\* os.path.expanduser('~' + rest)
expanduser(rest) == home \o rest

additional_paths ==
    << <<"/", "usr", "/", "local", "/", "bin">>,
       <<"/", "usr", "/", "bin">>,
       <<"/", "bin">>,
       expanduser(<<"/", ".npm-global", "/", "bin">>),
       <<"/", "home", "/", "user", "/", ".local", "/", "bin">> >>

\* lines 52-53 and 65-66: prepend unless  path in PATH  (a substring test)
PrependPath(path, cur) ==
    IF IsSubstr(path, cur) THEN cur ELSE path \o <<":">> \o cur

RECURSIVE PrependAll(_, _)
PrependAll(paths, cur) ==
    IF paths = <<>> THEN cur
    ELSE PrependAll(Tail(paths), PrependPath(Head(paths), cur))

\* env['PATH'] after lines 47-66
BuildEnvPath(os_path) ==
    LET current_path == IF os_path = None THEN <<>> ELSE os_path
    IN  PrependAll(additional_paths, PrependPath(npm_bin_path, current_path))

\* os.defpath, what shutil.which searches when PATH is unset
defpath == <<"/", "bin", ":", "/", "usr", "/", "bin">>

\* os.path.join(dir, 'gemini')
JoinGemini(dir) == IF dir = <<>> THEN <<"gemini">> ELSE dir \o <<"/", "gemini">>

RECURSIVE WhichIn(_, _)
WhichIn(dirs, execs) ==
    IF dirs = <<>> THEN None
    ELSE IF JoinGemini(Head(dirs)) \in execs THEN JoinGemini(Head(dirs))
    ELSE WhichIn(Tail(dirs), execs)

\* shutil.which('gemini') with os.environ['PATH'] = os_path
which(os_path, execs) ==
    LET path == IF os_path = None THEN defpath ELSE os_path
    IN  IF path = <<>> THEN None ELSE WhichIn(Split(path, ":"), execs)

\* lines 69-75
gemini_locations(os_path, execs) ==
    << <<"/", "home", "/", "user", "/", ".npm-global", "/", "bin", "/", "gemini">>,
       <<"/", "usr", "/", "local", "/", "bin", "/", "gemini">>,
       <<"/", "usr", "/", "bin", "/", "gemini">>,
       expanduser(<<"/", ".npm-global", "/", "bin", "/", "gemini">>),
       which(os_path, execs) >>

\* mutant: the loop without its break, the last usable location wins
RECURSIVE FirstUsable_NoBreak(_, _, _)
FirstUsable_NoBreak(locations, exists, execs) ==
    IF locations = <<>> THEN None
    ELSE LET later == FirstUsable_NoBreak(Tail(locations), exists, execs)
         IN  IF later # None THEN later
             ELSE IF /\ Head(locations) # None
                     /\ Head(locations) \in exists
                     /\ Head(locations) \in execs
                  THEN Head(locations)
             ELSE None

\* lines 77-81: the first location that exists and is executable
RECURSIVE FirstUsable(_, _, _)
FirstUsable(locations, exists, execs) ==
    IF locations = <<>> THEN None
    ELSE IF /\ Head(locations) # None
            /\ Head(locations) \in exists
            /\ Head(locations) \in execs
         THEN Head(locations)
    ELSE FirstUsable(Tail(locations), exists, execs)

\* lines 77-91: the resolved executable, or None
ResolveGemini(os_path, exists, execs) ==
    LET gemini_path == FirstUsable(gemini_locations(os_path, execs), exists, execs)
    IN  IF gemini_path # None THEN gemini_path
        ELSE which(BuildEnvPath(os_path), execs)

\* lines 84-91: os.environ['PATH'] after the call; the finally clause restores
\* environ.get('PATH', ''), which sets an unset PATH to the empty string
EnvironAfter(os_path, exists, execs) ==
    IF FirstUsable(gemini_locations(os_path, execs), exists, execs) # None
    THEN os_path
    ELSE IF os_path = None THEN <<>> ELSE os_path

NotFoundMessage ==
    <<"Gemini CLI executable ", "not found", ". Please ensure it's installed via npm.">>

TimeoutMessage(timeout) ==
    <<"Command '[gemini ...]' timed out after ", Str(timeout), " seconds">>

LaunchMessage(exc_type) ==
    IF exc_type = "FileNotFoundError"
    THEN <<"[Errno 2] No such file or directory">>
    ELSE <<"[Errno 13] Permission denied">>

\* The value or exception run_gemini_command ends with, and what the call
\* did on the way: the executable it resolved (gemini), whether a child was
\* spawned, os.environ['PATH'] at the call (os_path) and after it (environ)
\* and the PATH of the environment it built (env_PATH).  child is what the
\* child process does: launch ("ok" or the OSError subprocess.run raises),
\* seconds (its running time), returncode, stdout, stderr.
Completed(kind, exc_type, msg, gemini_path, cmd_args, timeout, os_path, child) ==
    [kind       |-> kind,
     exc_type   |-> exc_type,
     msg        |-> msg,
     gemini     |-> gemini_path,
     args       |-> cmd_args,
     timeout    |-> timeout,
     spawned    |-> gemini_path # None /\ child.launch = "ok",
     os_path    |-> os_path,
     env_PATH   |-> BuildEnvPath(os_path),
     child      |-> child,
     environ    |-> EnvironAfter(os_path, executables \cup plainfiles, executables),
     returncode |-> IF kind = "returned" THEN child.returncode ELSE None,
     stdout     |-> IF kind = "returned" THEN child.stdout ELSE <<>>,
     stderr     |-> IF kind = "returned" THEN child.stderr ELSE <<>>]

\* mutant: check=True, a non-zero exit raises
SubprocessRun_Check(gemini_path, cmd_args, timeout, os_path, child) ==
    IF child.launch # "ok"
    THEN Completed("raised", child.launch, LaunchMessage(child.launch),
                   gemini_path, cmd_args, timeout, os_path, child)
    ELSE IF child.seconds > timeout
    THEN Completed("raised", "TimeoutExpired", TimeoutMessage(timeout),
                   gemini_path, cmd_args, timeout, os_path, child)
    ELSE IF child.returncode # 0
    THEN Completed("raised", "CalledProcessError", <<"non-zero exit status">>,
                   gemini_path, cmd_args, timeout, os_path, child)
    ELSE Completed("returned", NoExc, <<>>, gemini_path, cmd_args, timeout,
                   os_path, child)

\* lines 111-139: subprocess.run
SubprocessRun(gemini_path, cmd_args, timeout, os_path, child) ==
    IF child.launch # "ok"
    THEN Completed("raised", child.launch, LaunchMessage(child.launch),
                   gemini_path, cmd_args, timeout, os_path, child)
    ELSE IF child.seconds > timeout
    THEN Completed("raised", "TimeoutExpired", TimeoutMessage(timeout),
                   gemini_path, cmd_args, timeout, os_path, child)
    ELSE Completed("returned", NoExc, <<>>, gemini_path, cmd_args, timeout,
                   os_path, child)

\* mutant: an unresolved executable is run by its bare name
run_gemini_command_BareName(cmd_args, timeout, os_path, child) ==
    LET present     == executables \cup plainfiles
        gemini_path == ResolveGemini(os_path, present, executables)
    IN  SubprocessRun(IF gemini_path = None THEN <<"gemini">> ELSE gemini_path,
                      cmd_args, timeout, os_path, child)

\* lines 28-139
run_gemini_command(cmd_args, timeout, os_path, child) ==
    LET present     == executables \cup plainfiles
        gemini_path == ResolveGemini(os_path, present, executables)
    IN  IF gemini_path = None
        THEN Completed("raised", "FileNotFoundError", NotFoundMessage,
                       None, cmd_args, timeout, os_path, child)
        ELSE SubprocessRun(gemini_path, cmd_args, timeout, os_path, child)

---------------------------------------------------------------------------
(* Handlers.  args is the argument mapping; w is what the call observes:   *)
(*   kind    the path argument on disk: "missing", "file" (readable text), *)
(*           "binary" (not UTF-8), "locked" (open is refused), "dir"       *)
(*   child   what the assistant child process does                        *)
(*   save    "ok", "mkdir_fails" or "write_fails" (generate_tests)         *)
(*   listing what glob finds in a directory (security_audit): a sequence   *)
(*           of [path, kind, child]                                        *)
(* A handler gives the record of what it did: its outcome (the list of    *)
(* payloads it returned, or the exception it let out), its                *)
(* run_gemini_command calls, the file it wrote, ./tests afterwards and,   *)
(* for security_audit, its audit_results list.                            *)
(***************************************************************************)

Did(out, calls, file, dir, results) ==
    [outcome |-> out, invocations |-> calls, written |-> file,
     tests_dir |-> dir, audit_results |-> results]

\* what the handler did, and which handler it was
Ran(handler, did) == [handler |-> handler] @@ did

\* return [TextContent(type="text", text=text)]
Payloads(texts) ==
    [kind |-> "returned", payloads |-> texts, exc_type |-> NoExc, msg |-> <<>>]

Returned(text, calls) == Did(Payloads(<<text>>), calls, <<>>, tests_dir, <<>>)

\* args[key] of an absent key, outside the handler's try
KeyError(key) ==
    Did([kind |-> "raised", payloads |-> <<>>, exc_type |-> "KeyError",
         msg |-> <<key>>],
        <<>>, <<>>, tests_dir, <<>>)

\* args.get(key, default)
Get(args, key, default) == IF key \in DOMAIN args THEN args[key] ELSE default

\* mutant: the fallback text whatever the child wrote
Or_Fallback(x, default) == default

\* x or default
Or(x, default) == IF x = <<>> THEN default ELSE x

\* mutant: the existence test left out
exists_Always(kind) == TRUE

\* os.path.exists, os.path.isfile, os.path.isdir of a path of that kind
exists(kind) == kind # "missing"
isfile(kind) == kind \in {"file", "binary", "locked"}
isdir(kind)  == kind = "dir"

\* the exception of  open(path, 'r', encoding='utf-8')  and  f.read()
ReadError(kind) ==
    CASE kind = "file"    -> NoExc
      [] kind = "binary"  -> "UnicodeDecodeError"
      [] kind = "locked"  -> "PermissionError"
      [] kind = "dir"     -> "IsADirectoryError"
      [] kind = "missing" -> "FileNotFoundError"

ReadMessage(kind, path) ==
    CASE kind = "binary"  -> <<"'utf-8' codec can't decode byte 0xff in position 0">>
      [] kind = "locked"  -> <<"[Errno 13] Permission denied: ">> \o path
      [] kind = "dir"     -> <<"[Errno 21] Is a directory: ">> \o path
      [] kind = "missing" -> <<"[Errno 2] No such file or directory: ">> \o path
      [] OTHER            -> <<>>

\* what f.read() gives for a readable text file
FileContent == <<"print(1)">>

(* review_code_handler, lines 236-338 *)
ReviewPrompt(review_type, file_path, code_content) ==
    LET head ==
          CASE review_type = <<"security">> ->
                 <<"Perform a comprehensive security review of this code. Look for:">>
            [] review_type = <<"performance">> ->
                 <<"Analyze this code for performance issues and optimization opportunities:">>
            [] review_type = <<"style">> ->
                 <<"Review this code for style, readability, and best practices:">>
            [] OTHER ->
                 <<"Perform a comprehensive code review covering all aspects:">>
    IN  head \o <<"\nFile: ">> \o file_path \o <<"\nCode:\n">> \o code_content

\* mutant: the success payload names the default review type, not the one
\* the call was given
review_code_handler_DefaultType(args, w) ==
    IF "file_path" \notin DOMAIN args THEN KeyError("file_path")
    ELSE
    LET file_path   == args["file_path"]
        review_type == Get(args, "review_type", <<"general">>)
        prompt      == ReviewPrompt(review_type, file_path, FileContent)
        result      == run_gemini_command(<< <<"--prompt">>, prompt >>, 90,
                                          environ_PATH, w.child)
    IN  IF ~exists(w.kind)
        THEN Returned(<<CROSS_MARK, " File ", "not found", ": ">> \o file_path, <<>>)
        ELSE IF ReadError(w.kind) # NoExc
        THEN Returned(<<CROSS_MARK, " Error during code review: ">>
                        \o ReadMessage(w.kind, file_path), <<>>)
        ELSE IF result.kind = "raised"
        THEN Returned(<<CROSS_MARK, " Error during code review: ">> \o result.msg,
                      <<result>>)
        ELSE IF result.returncode = 0
        THEN Returned(<<CHECK_MARK, " Code review completed!\n\nFile: ">> \o file_path
                        \o <<"\nReview Type: ", "general">>
                        \o <<"\n\nGemini Analysis:\n">> \o result.stdout,
                      <<result>>)
        ELSE Returned(<<CROSS_MARK, " Code review failed: ">>
                        \o Or(result.stderr, <<"Unknown error">>),
                      <<result>>)

review_code_handler(args, w) ==
    IF "file_path" \notin DOMAIN args THEN KeyError("file_path")
    ELSE
    LET file_path   == args["file_path"]
        review_type == Get(args, "review_type", <<"general">>)
        prompt      == ReviewPrompt(review_type, file_path, FileContent)
        result      == run_gemini_command(<< <<"--prompt">>, prompt >>, 90,
                                          environ_PATH, w.child)
    IN  IF ~exists(w.kind)
        THEN Returned(<<CROSS_MARK, " File ", "not found", ": ">> \o file_path, <<>>)
        ELSE IF ReadError(w.kind) # NoExc
        THEN Returned(<<CROSS_MARK, " Error during code review: ">>
                        \o ReadMessage(w.kind, file_path), <<>>)
        ELSE IF result.kind = "raised"
        THEN Returned(<<CROSS_MARK, " Error during code review: ">> \o result.msg,
                      <<result>>)
        ELSE IF result.returncode = 0
        THEN Returned(<<CHECK_MARK, " Code review completed!\n\nFile: ">> \o file_path
                        \o <<"\nReview Type: ">> \o review_type
                        \o <<"\n\nGemini Analysis:\n">> \o result.stdout,
                      <<result>>)
        ELSE Returned(<<CROSS_MARK, " Code review failed: ">>
                        \o Or(result.stderr, <<"Unknown error">>),
                      <<result>>)

(* generate_tests_handler, lines 340-414 *)

\* os.path.basename
basename(p) == SubSeq(p, RFind(p, "/") + 1, Len(p))

\* os.path.splitext: the extension starts at the last dot of the last
\* component, unless only dots precede that dot in the component
splitext(p) ==
    LET sepIndex == RFind(p, "/")
        dotIndex == RFind(p, ".")
    IN  IF /\ dotIndex > sepIndex
           /\ \E k \in (sepIndex + 1)..(dotIndex - 1) : p[k] # "."
        THEN <<SubSeq(p, 1, dotIndex - 1), SubSeq(p, dotIndex, Len(p))>>
        ELSE <<p, <<>>>>

\* mutant: the base name taken from the whole path, not from its last component
TestFileName_WholePath(source_file) ==
    LET base_name == splitext(source_file)[1]
        extension == splitext(source_file)[2]
    IN  IF extension \in {<<".", "js">>, <<".", "ts">>, <<".", "jsx">>, <<".", "tsx">>}
        THEN base_name \o <<".", "test">> \o extension
        ELSE IF extension = <<".", "py">>
        THEN <<"test_">> \o base_name \o <<".", "py">>
        ELSE IF extension \in {<<".", "java">>}
        THEN base_name \o <<"Test", ".", "java">>
        ELSE base_name \o <<"_test">> \o extension

\* lines 378-388
TestFileName(source_file) ==
    LET base_name == splitext(basename(source_file))[1]
        extension == splitext(source_file)[2]
    IN  IF extension \in {<<".", "js">>, <<".", "ts">>, <<".", "jsx">>, <<".", "tsx">>}
        THEN base_name \o <<".", "test">> \o extension
        ELSE IF extension = <<".", "py">>
        THEN <<"test_">> \o base_name \o <<".", "py">>
        ELSE IF extension \in {<<".", "java">>}
        THEN base_name \o <<"Test", ".", "java">>
        ELSE base_name \o <<"_test">> \o extension

\* line 390
TestFilePath(source_file) == <<".", "/", "tests", "/">> \o TestFileName(source_file)

\* line 393: os.makedirs("./tests", exist_ok=True) raises only when the
\* directory is absent and cannot be created
MakedirsFails(w) == tests_dir = "absent" /\ w.save = "mkdir_fails"

SaveMessage == <<"[Errno 13] Permission denied: './tests'">>

TestsPrompt(source_file, test_framework, coverage_level, source_code) ==
    <<"Generate ">> \o coverage_level \o <<" test cases for this code using ">>
      \o test_framework \o <<".\nSource File: ">> \o source_file
      \o <<"\nTesting Framework: ">> \o test_framework
      \o <<"\nCoverage Level: ">> \o coverage_level
      \o <<"\nSource Code:\n">> \o source_code

generate_tests_handler(args, w) ==
    IF "source_file" \notin DOMAIN args THEN KeyError("source_file")
    ELSE
    LET source_file    == args["source_file"]
        test_framework == Get(args, "test_framework", <<"jest">>)
        coverage_level == Get(args, "coverage_level", <<"comprehensive">>)
        prompt         == TestsPrompt(source_file, test_framework, coverage_level,
                                      FileContent)
        result         == run_gemini_command(<< <<"--prompt">>, prompt >>, 120,
                                             environ_PATH, w.child)
        test_file_path == TestFilePath(source_file)
    IN  IF ~exists(w.kind)
        THEN Returned(<<CROSS_MARK, " Source file ", "not found", ": ">> \o source_file,
                      <<>>)
        ELSE IF ReadError(w.kind) # NoExc
        THEN Returned(<<CROSS_MARK, " Error generating tests: ">>
                        \o ReadMessage(w.kind, source_file), <<>>)
        ELSE IF result.kind = "raised"
        THEN Returned(<<CROSS_MARK, " Error generating tests: ">> \o result.msg,
                      <<result>>)
        ELSE IF result.returncode # 0
        THEN Returned(<<CROSS_MARK, " Test generation failed: ">>
                        \o Or(result.stderr, <<"Unknown error">>),
                      <<result>>)
        ELSE IF MakedirsFails(w)
        THEN Returned(<<CROSS_MARK, " Error generating tests: ">> \o SaveMessage,
                      <<result>>)
        ELSE IF w.save = "write_fails"
        THEN Did(Payloads(
                   << <<CHECK_MARK, " Test cases generated!\n\nSource: ">> \o source_file
                      \o <<"\nFramework: ">> \o test_framework
                      \o <<"\nCoverage: ">> \o coverage_level
                      \o <<"\n\nNote: Could not save to file (">> \o SaveMessage
                      \o <<"), but here are the tests:\n">> \o result.stdout >>),
                 <<result>>, <<>>, "dir", <<>>)
        ELSE Did(Payloads(
                   << <<CHECK_MARK, " Test cases generated and saved!\n\nSource: ">>
                      \o source_file
                      \o <<"\nTest File: ">> \o test_file_path
                      \o <<"\nFramework: ">> \o test_framework
                      \o <<"\nCoverage: ">> \o coverage_level
                      \o <<"\n\nGenerated Tests:\n">> \o result.stdout >>),
                 <<result>>, <<test_file_path, result.stdout>>, "dir", <<>>)

(* security_audit_handler, lines 416-482 *)
AuditPrompt(file_path, content) ==
    <<"Perform a comprehensive security audit of this code file.\nFile: ">>
      \o file_path \o <<"\nCode:\n">> \o content

\* mutant: a file whose audit failed is tried a second time
AuditOne_RetryOnce(f, os_path) ==
    LET result == run_gemini_command(
                      << <<"--prompt">>, AuditPrompt(f.path, FileContent) >>, 60,
                      os_path, f.child)
        again  == run_gemini_command(
                      << <<"--prompt">>, AuditPrompt(f.path, FileContent) >>, 60,
                      result.environ, f.child)
    IN  IF ReadError(f.kind) # NoExc
        THEN [entry   |-> <<CROSS_MARK, " Error reading ">> \o f.path \o <<": ">>
                            \o ReadMessage(f.kind, f.path),
              calls   |-> <<>>,
              environ |-> os_path]
        ELSE IF result.kind = "raised"
        THEN [entry   |-> <<CROSS_MARK, " Error reading ">> \o f.path \o <<": ">>
                            \o again.msg,
              calls   |-> <<result, again>>,
              environ |-> again.environ]
        ELSE IF result.returncode = 0
        THEN [entry   |-> <<FILE_FOLDER, " File: ">> \o f.path \o <<"\n">>
                            \o result.stdout \o <<"\n", "========">>,
              calls   |-> <<result>>,
              environ |-> result.environ]
        ELSE [entry   |-> <<CROSS_MARK, " Failed to audit ">> \o f.path \o <<": ">>
                            \o Or(again.stderr, <<"Unknown error">>),
              calls   |-> <<result, again>>,
              environ |-> again.environ]

\* lines 438-473: the loop body for one file, os.environ['PATH'] being os_path
AuditOne(f, os_path) ==
    LET result == run_gemini_command(
                      << <<"--prompt">>, AuditPrompt(f.path, FileContent) >>, 60,
                      os_path, f.child)
    IN  IF ReadError(f.kind) # NoExc
        THEN [entry   |-> <<CROSS_MARK, " Error reading ">> \o f.path \o <<": ">>
                            \o ReadMessage(f.kind, f.path),
              calls   |-> <<>>,
              environ |-> os_path]
        ELSE IF result.kind = "raised"
        THEN [entry   |-> <<CROSS_MARK, " Error reading ">> \o f.path \o <<": ">>
                            \o result.msg,
              calls   |-> <<result>>,
              environ |-> result.environ]
        ELSE IF result.returncode = 0
        THEN [entry   |-> <<FILE_FOLDER, " File: ">> \o f.path \o <<"\n">>
                            \o result.stdout \o <<"\n", "========">>,
              calls   |-> <<result>>,
              environ |-> result.environ]
        ELSE [entry   |-> <<CROSS_MARK, " Failed to audit ">> \o f.path \o <<": ">>
                            \o Or(result.stderr, <<"Unknown error">>),
              calls   |-> <<result>>,
              environ |-> result.environ]

\* mutant: the loop ends at the first file that is not audited successfully
RECURSIVE AuditLoop_Abort(_, _, _, _)
AuditLoop_Abort(files, os_path, results, calls) ==
    IF files = <<>>
    THEN [audit_results |-> results, invocations |-> calls]
    ELSE LET one == AuditOne(Head(files), os_path)
         IN  IF one.entry[1] = CROSS_MARK
             THEN [audit_results |-> Append(results, one.entry),
                   invocations |-> calls \o one.calls]
             ELSE AuditLoop_Abort(Tail(files), one.environ,
                                  Append(results, one.entry), calls \o one.calls)

\* lines 436-473
RECURSIVE AuditLoop(_, _, _, _)
AuditLoop(files, os_path, results, calls) ==
    IF files = <<>>
    THEN [audit_results |-> results, invocations |-> calls]
    ELSE LET one == AuditOne(Head(files), os_path)
         IN  AuditLoop(Tail(files), one.environ,
                       Append(results, one.entry), calls \o one.calls)

\* mutant: the two ceilings exchanged
MaxFiles_Swapped(audit_level) == IF audit_level = <<"deep">> THEN 10 ELSE 20

\* line 433
MaxFiles(audit_level) == IF audit_level = <<"deep">> THEN 20 ELSE 10

\* lines 421-434: the files the loop goes through
FilesToAudit(target_path, audit_level, w) ==
    LET files_to_audit ==
          IF isfile(w.kind)
          THEN << [path |-> target_path, kind |-> w.kind, child |-> w.child] >>
          ELSE w.listing
        max_files == MaxFiles(audit_level)
    IN  SubSeq(files_to_audit, 1,
               IF Len(files_to_audit) < max_files THEN Len(files_to_audit)
               ELSE max_files)

security_audit_handler(args, w) ==
    IF "target_path" \notin DOMAIN args THEN KeyError("target_path")
    ELSE
    LET target_path == args["target_path"]
        audit_level == Get(args, "audit_level", <<"quick">>)
        loop        == AuditLoop(FilesToAudit(target_path, audit_level, w),
                                 environ_PATH, <<>>, <<>>)
    IN  IF ~isfile(w.kind) /\ ~isdir(w.kind)
        THEN Returned(<<CROSS_MARK, " Path ", "not found", ": ">> \o target_path, <<>>)
        ELSE Did(Payloads(
                   << <<CHECK_MARK, " Security audit completed!\n\nTarget: ">>
                      \o target_path
                      \o <<"\nAudited Files: ", Str(Len(loop.audit_results)),
                           "\nAudit Level: ">> \o audit_level
                      \o <<"\n\n">> \o Join(<<"\n\n">>, loop.audit_results) >>),
                 loop.invocations, <<>>, tests_dir, loop.audit_results)

(* performance_analysis_handler, lines 484-531 *)
PerformancePrompt(language, file_path, code_content) ==
    <<"Analyze this ">> \o language
      \o <<" code for performance bottlenecks and optimization opportunities.\nFile: ">>
      \o file_path \o <<"\nLanguage: ">> \o language \o <<"\nCode:\n">> \o code_content

performance_analysis_handler(args, w) ==
    IF "file_path" \notin DOMAIN args THEN KeyError("file_path")
    ELSE IF "language" \notin DOMAIN args THEN KeyError("language")
    ELSE
    LET file_path == args["file_path"]
        language  == args["language"]
        prompt    == PerformancePrompt(language, file_path, FileContent)
        result    == run_gemini_command(<< <<"--prompt">>, prompt >>, 90,
                                        environ_PATH, w.child)
    IN  IF ~exists(w.kind)
        THEN Returned(<<CROSS_MARK, " File ", "not found", ": ">> \o file_path, <<>>)
        ELSE IF ReadError(w.kind) # NoExc
        THEN Returned(<<CROSS_MARK, " Performance analysis error: ">>
                        \o ReadMessage(w.kind, file_path), <<>>)
        ELSE IF result.kind = "raised"
        THEN Returned(<<CROSS_MARK, " Performance analysis error: ">> \o result.msg,
                      <<result>>)
        ELSE IF result.returncode = 0
        THEN Returned(<<CHECK_MARK, " Performance analysis completed!\n\nFile: ">>
                        \o file_path \o <<"\nLanguage: ">> \o language
                        \o <<"\n\nGemini Performance Analysis:\n">> \o result.stdout,
                      <<result>>)
        ELSE Returned(<<CROSS_MARK, " Performance analysis failed: ">>
                        \o Or(result.stderr, <<"Unknown error">>),
                      <<result>>)

(* code_quality_report_handler, lines 533-636 *)

\* str(include_metrics)
StrBool(b) == IF b THEN <<"True">> ELSE <<"False">>

\* lines 541-577: the tree listing and the key files' content; os.walk and
\* glob yield nothing for a path that is no directory, read errors are passed
ProjectContext(kind) ==
    IF isdir(kind)
    THEN <<"\nProject Structure:\n", "project/\n  README.md",
           "\nKey Configuration Files:\n", "README.md:\n# project">>
    ELSE <<"\nProject Structure:\n", "\nKey Configuration Files:\n">>

QualityPrompt(project_path, include_metrics, kind) ==
    <<"Analyze this project and provide a comprehensive code quality report.",
      "\nProject Path: ">> \o project_path
      \o <<"\nInclude Metrics: ">> \o StrBool(include_metrics) \o ProjectContext(kind)

code_quality_report_handler(args, w) ==
    IF "project_path" \notin DOMAIN args THEN KeyError("project_path")
    ELSE
    LET project_path    == args["project_path"]
        include_metrics == Get(args, "include_metrics", TRUE)
        prompt          == QualityPrompt(project_path, include_metrics, w.kind)
        result          == run_gemini_command(<< <<"--prompt">>, prompt >>, 150,
                                              environ_PATH, w.child)
    IN  IF ~exists(w.kind)
        THEN Returned(<<CROSS_MARK, " Project path ", "not found", ": ">>
                        \o project_path, <<>>)
        ELSE IF result.kind = "raised"
        THEN Returned(<<CROSS_MARK, " Quality report error: ">> \o result.msg,
                      <<result>>)
        ELSE IF result.returncode = 0
        THEN Returned(<<CHECK_MARK, " Code quality report generated!\n\nProject: ">>
                        \o project_path \o <<"\nMetrics Included: ">>
                        \o StrBool(include_metrics)
                        \o <<"\n\nGemini Quality Report:\n">> \o result.stdout,
                      <<result>>)
        ELSE Returned(<<CROSS_MARK, " Quality report generation failed: ">>
                        \o Or(result.stderr, <<"Unknown error">>),
                      <<result>>)

(* ask_gemini_handler, lines 638-668 *)

\* mutant: no clause of its own for TimeoutExpired
AskFailure_NoTimeoutClause(exc_type, msg) ==
    IF exc_type = "FileNotFoundError"
    THEN <<CROSS_MARK, " Gemini CLI ", "not found", ": ">> \o msg
    ELSE <<CROSS_MARK, " Error: ">> \o msg

\* lines 662-668: the except clauses
AskFailure(exc_type, msg) ==
    IF exc_type = "TimeoutExpired"
    THEN <<ALARM_CLOCK, " Gemini request timed out">>
    ELSE IF exc_type = "FileNotFoundError"
    THEN <<CROSS_MARK, " Gemini CLI ", "not found", ": ">> \o msg
    ELSE <<CROSS_MARK, " Error: ">> \o msg

\* mutant: the flag is added whenever the argument is supplied, whatever
\* its value
ask_gemini_handler_FlagIfSupplied(args, w) ==
    IF "prompt" \notin DOMAIN args THEN KeyError("prompt")
    ELSE
    LET prompt            == args["prompt"]
        include_all_files == "include_all_files" \in DOMAIN args
        cmd_args          == << <<"--prompt">>, prompt >>
                               \o IF include_all_files THEN << <<"--all_files">> >>
                                  ELSE <<>>
        result            == run_gemini_command(cmd_args, 120, environ_PATH, w.child)
    IN  IF result.kind = "raised"
        THEN Returned(AskFailure(result.exc_type, result.msg), <<result>>)
        ELSE IF result.returncode = 0
        THEN Returned(<<CHECK_MARK, " Gemini Response:\n\n">> \o result.stdout,
                      <<result>>)
        ELSE Returned(<<CROSS_MARK, " Gemini Error:\n">>
                        \o Or(result.stderr, <<"Unknown error occurred">>),
                      <<result>>)

ask_gemini_handler(args, w) ==
    IF "prompt" \notin DOMAIN args THEN KeyError("prompt")
    ELSE
    LET prompt            == args["prompt"]
        include_all_files == Get(args, "include_all_files", FALSE)
        cmd_args          == << <<"--prompt">>, prompt >>
                               \o IF include_all_files THEN << <<"--all_files">> >>
                                  ELSE <<>>
        result            == run_gemini_command(cmd_args, 120, environ_PATH, w.child)
    IN  IF result.kind = "raised"
        THEN Returned(AskFailure(result.exc_type, result.msg), <<result>>)
        ELSE IF result.returncode = 0
        THEN Returned(<<CHECK_MARK, " Gemini Response:\n\n">> \o result.stdout,
                      <<result>>)
        ELSE Returned(<<CROSS_MARK, " Gemini Error:\n">>
                        \o Or(result.stderr, <<"Unknown error occurred">>),
                      <<result>>)

(* call_tool, lines 219-234 *)

\* mutant: the last branch taken for every other name
HandlerFor_Fallthrough(tool) ==
    IF tool = "review_code" THEN "review_code_handler"
    ELSE IF tool = "generate_tests" THEN "generate_tests_handler"
    ELSE IF tool = "security_audit" THEN "security_audit_handler"
    ELSE IF tool = "performance_analysis" THEN "performance_analysis_handler"
    ELSE IF tool = "code_quality_report" THEN "code_quality_report_handler"
    ELSE "ask_gemini_handler"

\* the handler the name selects, or None
HandlerFor(tool) ==
    IF tool = "review_code" THEN "review_code_handler"
    ELSE IF tool = "generate_tests" THEN "generate_tests_handler"
    ELSE IF tool = "security_audit" THEN "security_audit_handler"
    ELSE IF tool = "performance_analysis" THEN "performance_analysis_handler"
    ELSE IF tool = "code_quality_report" THEN "code_quality_report_handler"
    ELSE IF tool = "ask_gemini" THEN "ask_gemini_handler"
    ELSE "None"

call_tool(tool, args, w) ==
    LET handler == HandlerFor(tool)
    IN  CASE handler = "review_code_handler" ->
                 Ran(handler, review_code_handler(args, w))
          [] handler = "generate_tests_handler" ->
                 Ran(handler, generate_tests_handler(args, w))
          [] handler = "security_audit_handler" ->
                 Ran(handler, security_audit_handler(args, w))
          [] handler = "performance_analysis_handler" ->
                 Ran(handler, performance_analysis_handler(args, w))
          [] handler = "code_quality_report_handler" ->
                 Ran(handler, code_quality_report_handler(args, w))
          [] handler = "ask_gemini_handler" ->
                 Ran(handler, ask_gemini_handler(args, w))
          [] OTHER ->
                 Ran("None",
                     Did([kind |-> "raised", payloads |-> <<>>,
                          exc_type |-> "ValueError",
                          msg |-> <<"Unknown tool: ", tool>>],
                         <<>>, <<>>, tests_dir, <<>>))

---------------------------------------------------------------------------
(* Inputs *)

\* the most files a directory given to security_audit holds: under AuditSpec,
\* more than the deep ceiling; under Spec, a few
MaxDirFiles == 22
SmallDirFiles == 3

Child(launch, seconds, returncode, stdout, stderr) ==
    [launch |-> launch, seconds |-> seconds, returncode |-> returncode,
     stdout |-> stdout, stderr |-> stderr]

\* a child that is never looked at
NoChild == Child("ok", 0, 0, <<>>, <<>>)

\* exits 0 at once; exits non-zero with and without stderr; runs 100 s and
\* 200 s (past some and past all of the handlers' timeouts); cannot be launched
Children ==
    { Child("ok", 1, 0, <<"ANSWER">>, <<>>),
      Child("ok", 1, 1, <<>>, <<"quota exceeded">>),
      Child("ok", 1, 2, <<"partial">>, <<>>),
      Child("ok", 100, 0, <<"ANSWER">>, <<>>),
      Child("ok", 200, 0, <<"ANSWER">>, <<>>),
      Child("FileNotFoundError", 0, 0, <<>>, <<>>),
      Child("PermissionError", 0, 0, <<>>, <<>>) }

Observed(kind, child, save, listing) ==
    [kind |-> kind, child |-> child, save |-> save, listing |-> listing]

NoIO == Observed("unused", NoChild, "ok", <<>>)

\* a path argument on disk, for a handler that reads one file
FileObservations ==
    {Observed("file", c, "ok", <<>>) : c \in Children}
      \cup {Observed(k, NoChild, "ok", <<>>) : k \in {"missing", "binary", "locked", "dir"}}

\* what one file of a directory listing does when audited
FileBehaviours ==
    {[kind |-> "file", child |-> c] : c \in Children}
      \cup {[kind |-> k, child |-> NoChild] : k \in {"binary", "locked"}}

\* what every second file of a listing does
SecondBehaviours ==
    { [kind |-> "file", child |-> Child("ok", 1, 0, <<"ANSWER">>, <<>>)],
      [kind |-> "file", child |-> Child("ok", 1, 1, <<>>, <<"quota exceeded">>)],
      [kind |-> "locked", child |-> NoChild] }

\* glob's result: n files under target, behaving as a and b in turn
Listing(target, n, a, b) ==
    [i \in 1..n |->
        LET f == IF i % 2 = 1 THEN a ELSE b
        IN  [path  |-> target \o <<"/", "f" \o ToString(i), ".", "py">>,
             kind  |-> f.kind,
             child |-> f.child]]

AuditObservations(target, most) ==
    {Observed(k, c, "ok", <<>>) :
        k \in {"file"}, c \in Children}
      \cup {Observed(k, NoChild, "ok", <<>>) : k \in {"missing", "binary", "locked"}}
      \cup {Observed("dir", NoChild, "ok", Listing(target, n, a, b)) :
              n \in 0..most, a \in FileBehaviours, b \in SecondBehaviours}

TestsObservations ==
    FileObservations
      \cup {Observed("file", c, s, <<>>) :
              c \in Children, s \in {"mkdir_fails", "write_fails"}}

AskObservations == {Observed("unused", c, "ok", <<>>) : c \in Children}

A_PY     == <<"a", ".", "py">>
LIB_X_TS == <<"lib", "/", "x", ".", "ts">>
PROJECT  == <<"/", "srv", "/", "project">>

ToolNames ==
    {"review_code", "generate_tests", "security_audit", "performance_analysis",
     "code_quality_report", "ask_gemini"}

\* the catalog's "required" lists, lines 153, 166, 178, 190, 202, 214
Required(tool) ==
    CASE tool = "review_code"          -> {"file_path"}
      [] tool = "generate_tests"       -> {"source_file"}
      [] tool = "security_audit"       -> {"target_path"}
      [] tool = "performance_analysis" -> {"file_path", "language"}
      [] tool = "code_quality_report"  -> {"project_path"}
      [] tool = "ask_gemini"           -> {"prompt"}
      [] OTHER                         -> {}

UndeclaredNames == {"", "Review_Code", "list_tools", "ask_gemini_handler"}

\* argument mappings the protocol layer may deliver for a tool
ArgumentsFor(tool) ==
    CASE tool = "review_code" ->
           {[file_path |-> p, review_type |-> t] :
               p \in {A_PY, LIB_X_TS}, t \in {<<"security">>, <<"thorough">>}}
             \cup {[file_path |-> A_PY], [review_type |-> <<"style">>]}
      [] tool = "generate_tests" ->
           {[source_file |-> p, test_framework |-> f, coverage_level |-> <<"basic">>] :
               p \in {A_PY, LIB_X_TS, <<"Bar", ".", "java">>, <<"Makefile">>},
               f \in {<<"pytest">>}}
             \cup {[source_file |-> A_PY], [test_framework |-> <<"pytest">>]}
      [] tool = "security_audit" ->
           {[target_path |-> p, audit_level |-> l] :
               p \in {PROJECT}, l \in {<<"quick">>, <<"deep">>}}
             \cup {[target_path |-> PROJECT], [audit_level |-> <<"deep">>]}
      [] tool = "performance_analysis" ->
           {[file_path |-> p, language |-> <<"python">>] : p \in {A_PY, LIB_X_TS}}
             \cup {[file_path |-> A_PY], [language |-> <<"python">>]}
      [] tool = "code_quality_report" ->
           {[project_path |-> PROJECT, include_metrics |-> m] : m \in BOOLEAN}
             \cup {[project_path |-> PROJECT], [include_metrics |-> TRUE]}
      [] tool = "ask_gemini" ->
           {[prompt |-> <<"ping">>, include_all_files |-> b] : b \in BOOLEAN}
             \cup {[prompt |-> <<"ping">>], [include_all_files |-> TRUE]}
      [] OTHER -> {<<>>, [file_path |-> A_PY]}

ObservationsFor(tool, args) ==
    CASE tool \in {"review_code", "performance_analysis", "code_quality_report"} ->
           FileObservations
      [] tool = "generate_tests" -> TestsObservations
      [] tool = "security_audit" ->
           AuditObservations(Get(args, "target_path", <<>>), SmallDirFiles)
      [] tool = "ask_gemini" -> AskObservations
      [] OTHER -> {NoIO}

HOME_USER == <<"/", "home", "/", "user">>
ROOT_HOME == <<"/", "root">>

Homes == {HOME_USER, ROOT_HOME}

AmbientPaths ==
    { None,
      <<"/", "usr", "/", "bin", ":", "/", "bin">>,
      <<"/", "opt", "/", "tools", "/", "bin">> }

\* where an executable gemini is installed
Installs ==
    { {},
      {<<"/", "usr", "/", "local", "/", "bin", "/", "gemini">>},
      {<<"/", "home", "/", "user", "/", ".local", "/", "bin", "/", "gemini">>},
      {<<"/", "opt", "/", "tools", "/", "bin", "/", "gemini">>},
      {<<"/", "bin", "/", "gemini">>},
      {<<"/", "root", "/", ".npm-global", "/", "bin", "/", "gemini">>} }

\* a gemini file that is there but not executable
PlainInstalls ==
    { {}, {<<"/", "home", "/", "user", "/", ".npm-global", "/", "bin", "/", "gemini">>} }

---------------------------------------------------------------------------
(* The state machine *)

NoOutcome == [kind |-> "none", payloads |-> <<>>, exc_type |-> NoExc, msg |-> <<>>]

Idle ==
    /\ pc = "idle"
    /\ name = ""
    /\ arguments = <<>>
    /\ io = NoIO
    /\ dispatched = "None"
    /\ outcome = NoOutcome
    /\ invocations = <<>>
    /\ written = <<>>
    /\ audit_results = <<>>

Init ==
    /\ environ_PATH \in AmbientPaths
    /\ home \in Homes
    /\ executables \in Installs
    /\ plainfiles \in PlainInstalls
    /\ tests_dir \in {"absent", "dir"}
    /\ Idle

\* the protocol layer calls call_tool(tool, args); the call runs to its end
Call(tool, args, w) ==
    /\ pc = "idle"
    /\ \E did \in {call_tool(tool, args, w)} :
        /\ pc' = "done"
        /\ name' = tool
        /\ arguments' = args
        /\ io' = w
        /\ dispatched' = did.handler
        /\ outcome' = did.outcome
        /\ invocations' = did.invocations
        /\ written' = did.written
        /\ audit_results' = did.audit_results
        /\ tests_dir' = did.tests_dir
        /\ environ_PATH' = IF did.invocations = <<>> THEN environ_PATH
                           ELSE did.invocations[Len(did.invocations)].environ
        /\ UNCHANGED <<home, executables, plainfiles>>

CallTool(tool) ==
    /\ pc = "idle"
    /\ \E args \in ArgumentsFor(tool) :
          \E w \in ObservationsFor(tool, args) : Call(tool, args, w)

ReviewCode          == CallTool("review_code")
GenerateTests       == CallTool("generate_tests")
SecurityAudit       == CallTool("security_audit")
PerformanceAnalysis == CallTool("performance_analysis")
CodeQualityReport   == CallTool("code_quality_report")
AskGemini           == CallTool("ask_gemini")
UnknownTool         == \E tool \in UndeclaredNames : CallTool(tool)

\* the protocol layer takes the result; the server waits for the next call
Deliver ==
    /\ pc = "done"
    /\ pc' = "idle"
    /\ name' = ""
    /\ arguments' = <<>>
    /\ io' = NoIO
    /\ dispatched' = "None"
    /\ outcome' = NoOutcome
    /\ invocations' = <<>>
    /\ written' = <<>>
    /\ audit_results' = <<>>
    /\ UNCHANGED <<environ_PATH, home, executables, plainfiles, tests_dir>>

Next ==
    \/ ReviewCode
    \/ GenerateTests
    \/ SecurityAudit
    \/ PerformanceAnalysis
    \/ CodeQualityReport
    \/ AskGemini
    \/ UnknownTool
    \/ Deliver

Spec == Init /\ [][Next]_vars

(* security_audit alone, over directories of up to MaxDirFiles files *)
AuditInit ==
    /\ environ_PATH = None
    /\ home = HOME_USER
    /\ executables \in {{}, {<<"/", "usr", "/", "local", "/", "bin", "/", "gemini">>}}
    /\ plainfiles = {}
    /\ tests_dir = "absent"
    /\ Idle

AuditDirectory ==
    /\ pc = "idle"
    /\ \E args \in ArgumentsFor("security_audit") :
          \E w \in AuditObservations(Get(args, "target_path", <<>>), MaxDirFiles) :
              Call("security_audit", args, w)

AuditNext == AuditDirectory \/ Deliver

AuditSpec == AuditInit /\ [][AuditNext]_vars

(* generate_tests alone, over source paths of up to MaxPathLen tokens *)
MaxPathLen == 5

PathTokens == {"/", ".", "x", "py", "ts"}

RECURSIVE TokenSeqs(_)
TokenSeqs(n) ==
    IF n = 0 THEN {<<>>}
    ELSE {Append(p, t) : p \in TokenSeqs(n - 1), t \in PathTokens}

\* paths that can name a file: not empty, not ending in a separator; and the
\* extensions the mapping tells apart
SourcePaths ==
    {p \in UNION {TokenSeqs(n) : n \in 1..MaxPathLen} : p[Len(p)] # "/"}
      \cup { <<"Bar", ".", "java">>, <<"x", ".", "js">>, <<"x", ".", "jsx">>,
             <<"x", ".", "tsx">>, <<"x", ".", "go">>, <<"X", ".", "PY">>,
             <<"Makefile">> }

NamingInit ==
    /\ environ_PATH = None
    /\ home = HOME_USER
    /\ executables = {<<"/", "usr", "/", "local", "/", "bin", "/", "gemini">>}
    /\ plainfiles = {}
    /\ tests_dir \in {"absent", "dir"}
    /\ Idle

NameTests ==
    /\ pc = "idle"
    /\ \E p \in SourcePaths, save \in {"ok", "write_fails"} :
          Call("generate_tests", [source_file |-> p],
               Observed("file", Child("ok", 1, 0, <<"ANSWER">>, <<>>), save, <<>>))

NamingNext == NameTests \/ Deliver

NamingSpec == NamingInit /\ [][NamingNext]_vars

(* main's availability test, lines 672-680, over search paths of up to     *)
(* MaxPathEntries directories and every set of installed executables       *)
MaxPathEntries == 2

OPT_TOOLS_BIN == <<"/", "opt", "/", "tools", "/", "bin">>

\* directories an ambient search path may name
PathDirs ==
    { <<"/", "usr", "/", "bin">>,
      <<"/", "bin">>,
      OPT_TOOLS_BIN,
      <<"/", "home", "/", "user", "/", ".npm-global", "/", "bin">> }

RECURSIVE DirSeqs(_)
DirSeqs(n) ==
    IF n = 0 THEN {<<>>}
    ELSE {Append(p, d) : p \in DirSeqs(n - 1), d \in PathDirs}

\* os.environ['PATH'] at startup: unset, empty, or up to MaxPathEntries
\* directories joined by ':'
StartPaths ==
    {None} \cup {Join(<<":">>, p) : p \in UNION {DirSeqs(n) : n \in 0..MaxPathEntries}}

\* where a gemini file may be
GeminiFiles ==
    { JoinGemini(d) : d \in
          { <<"/", "home", "/", "user", "/", ".npm-global", "/", "bin">>,
            <<"/", "usr", "/", "local", "/", "bin">>,
            <<"/", "root", "/", ".npm-global", "/", "bin">>,
            <<"/", "bin">>,
            OPT_TOOLS_BIN,
            <<"/", "home", "/", "user", "/", ".local", "/", "bin">> } }

\* --version answered at once, or not within the 10 seconds
StartupChildren ==
    { Child("ok", 1, 0, <<"0.1.9">>, <<>>),
      Child("ok", 100, 0, <<"0.1.9">>, <<>>) }

InvokerInit ==
    /\ environ_PATH \in StartPaths
    /\ home \in Homes
    /\ executables \in SUBSET GeminiFiles
    /\ plainfiles \in {{}, {JoinGemini(<<"/", "usr", "/", "local", "/", "bin">>)}
                             \ executables}
    /\ tests_dir = "absent"
    /\ pc = "start"
    /\ name = ""
    /\ arguments = <<>>
    /\ io = NoIO
    /\ dispatched = "None"
    /\ outcome = NoOutcome
    /\ invocations = <<>>
    /\ written = <<>>
    /\ audit_results = <<>>

\* main, lines 672-680: run_gemini_command(["--version"], timeout=10), any
\* exception logged and passed over; then the server waits for calls
TestAvailability ==
    /\ pc = "start"
    /\ \E child \in StartupChildren :
        \E result \in {run_gemini_command(<< <<"--version">> >>, 10,
                                          environ_PATH, child)} :
            /\ pc' = "idle"
            /\ io' = Observed("unused", child, "ok", <<>>)
            /\ invocations' = <<result>>
            /\ environ_PATH' = result.environ
            /\ UNCHANGED <<home, executables, plainfiles, tests_dir, name,
                           arguments, dispatched, outcome, written, audit_results>>

InvokerNext == TestAvailability

InvokerSpec == InvokerInit /\ [][InvokerNext]_vars

---------------------------------------------------------------------------
(* Properties *)

\* a call of a declared tool, with its required arguments, has finished
Finished(tool) ==
    pc = "done" /\ name = tool /\ Required(tool) \subseteq DOMAIN arguments

\* the one payload of a finished call that returned
Payload == outcome.payloads[1]

HasToken(text, tok) == \E i \in DOMAIN text : text[i] = tok

\* C1: a name that is not one of the six declared names fails with the
\* "unknown tool" error, which reaches the caller, and no handler runs and
\* the assistant is not invoked; each declared name runs the handler of that
\* name
UnknownNameFails ==
    pc = "done" =>
        IF name \in ToolNames
        THEN dispatched = name \o "_handler"
        ELSE /\ outcome.kind = "raised"
             /\ outcome.exc_type = "ValueError"
             /\ outcome.msg = <<"Unknown tool: ", name>>
             /\ outcome.payloads = <<>>
             /\ dispatched = "None"
             /\ invocations = <<>>

UnknownNameSeen ==
    pc = "done" /\ name \notin ToolNames /\ outcome.kind = "raised"

\* C2: a file-based handler given a path that does not exist returns one
\* failure payload containing "not found" and never calls run_gemini_command
MissingPathNotFound ==
    \A tool \in ToolNames \ {"ask_gemini"} :
        (Finished(tool) /\ io.kind = "missing") =>
            /\ outcome.kind = "returned"
            /\ Len(outcome.payloads) = 1
            /\ Payload[1] = CROSS_MARK
            /\ HasToken(Payload, "not found")
            /\ invocations = <<>>

MissingPathSeen ==
    /\ Finished("code_quality_report")
    /\ io.kind = "missing"
    /\ outcome.kind = "returned"

\* C3, as claimed: every handler, whatever the outcome of the call, returns
\* exactly one payload that begins with the success or the failure glyph
GlyphIsCheckOrCross ==
    \A tool \in ToolNames :
        Finished(tool) =>
            /\ outcome.kind = "returned"
            /\ Len(outcome.payloads) = 1
            /\ Payload[1] \in {CHECK_MARK, CROSS_MARK}

AskTimedOut ==
    /\ Finished("ask_gemini")
    /\ invocations # <<>>
    /\ invocations[1].exc_type = "TimeoutExpired"

\* C3, amended: every handler returns exactly one payload; it begins with
\* the success or the failure glyph, except that ask_gemini's payload for a
\* child that timed out begins with the alarm clock glyph
GlyphIsCheckCrossOrAlarm ==
    \A tool \in ToolNames :
        Finished(tool) =>
            /\ outcome.kind = "returned"
            /\ Len(outcome.payloads) = 1
            /\ IF AskTimedOut THEN Payload[1] = ALARM_CLOCK
               ELSE Payload[1] \in {CHECK_MARK, CROSS_MARK}

AlarmSeen == AskTimedOut /\ outcome.kind = "returned" /\ Payload[1] = ALARM_CLOCK

\* C4, as claimed: no exception escapes a handler, whatever argument
\* mapping it is given, a mapping without a required argument included
NoExceptionEscapes ==
    (pc = "done" /\ name \in ToolNames) => outcome.kind = "returned"

\* the directories of a search path
DirsOf(path) == {Split(path, ":")[i] : i \in 1..Len(Split(path, ":"))}

\* no candidate location holds an executable gemini, and neither the ambient
\* search path nor the constructed one leads to one
NothingToFind(os_path) ==
    /\ \A dir \in { <<"/", "home", "/", "user", "/", ".npm-global", "/", "bin">>,
                   <<"/", "usr", "/", "local", "/", "bin">>,
                   <<"/", "usr", "/", "bin">>,
                   home \o <<"/", ".npm-global", "/", "bin">> } :
           dir \o <<"/", "gemini">> \notin executables
    /\ \A dir \in DirsOf(IF os_path = None THEN defpath ELSE os_path) :
           dir \o <<"/", "gemini">> \notin executables
    /\ \A dir \in DirsOf(BuildEnvPath(os_path)) :
           dir \o <<"/", "gemini">> \notin executables

\* C5: when nothing resolves the executable, run_gemini_command fails with
\* FileNotFoundError, which is not the timeout error, and spawns no child;
\* ask_gemini reports it with the failure glyph and "not found", not as a
\* timeout
UnresolvedIsNotFound ==
    pc = "done" =>
        \A i \in DOMAIN invocations :
            NothingToFind(invocations[i].os_path) =>
                /\ invocations[i].kind = "raised"
                /\ invocations[i].exc_type = "FileNotFoundError"
                /\ invocations[i].exc_type # "TimeoutExpired"
                /\ ~invocations[i].spawned
                /\ name = "ask_gemini" =>
                       /\ Payload[1] = CROSS_MARK
                       /\ HasToken(Payload, "not found")

UnresolvedSeen ==
    /\ pc = "done"
    /\ name = "ask_gemini"
    /\ invocations # <<>>
    /\ NothingToFind(invocations[1].os_path)
    /\ invocations[1].child.seconds > invocations[1].timeout

\* C6, as claimed: once the executable is resolved, run_gemini_command
\* either fails with the timeout error or returns normally
TimeoutOrReturn ==
    pc = "done" =>
        \A i \in DOMAIN invocations :
            invocations[i].gemini # None =>
                \/ invocations[i].kind = "returned"
                \/ /\ invocations[i].kind = "raised"
                   /\ invocations[i].exc_type = "TimeoutExpired"

\* C6, amended: once the executable is resolved and the child is launched,
\* a child that outlasts the timeout gives the timeout error and any other
\* child gives its exit code, stdout and stderr as a normal value, whatever
\* the exit code; a launch that fails raises that launch error
LaunchThenTimeoutOrReturn ==
    pc = "done" =>
        \A i \in DOMAIN invocations :
            LET r == invocations[i]
            IN  r.gemini # None =>
                    IF r.child.launch # "ok"
                    THEN r.kind = "raised" /\ r.exc_type = r.child.launch
                    ELSE IF r.child.seconds > r.timeout
                    THEN r.kind = "raised" /\ r.exc_type = "TimeoutExpired"
                    ELSE /\ r.kind = "returned"
                         /\ r.returncode = r.child.returncode
                         /\ r.stdout = r.child.stdout
                         /\ r.stderr = r.child.stderr

NonZeroExitReturned ==
    /\ pc = "done"
    /\ invocations # <<>>
    /\ invocations[1].kind = "returned"
    /\ invocations[1].returncode # 0

\* the ceiling the claims give for an audit level
Ceiling == IF Get(arguments, "audit_level", <<"quick">>) = <<"deep">> THEN 20 ELSE 10

\* how many files of the directory listing are within the ceiling
Capped == IF Len(io.listing) < Ceiling THEN Len(io.listing) ELSE Ceiling

\* the files within the ceiling that can be read, and the j-th of them
Readable == {i \in 1..Capped : io.listing[i].kind = "file"}
NthReadable(j) == CHOOSE i \in Readable : Cardinality({k \in Readable : k <= i}) = j

\* the j-th invocation ended with exit code 0
Exit0(j) == invocations[j].kind = "returned" /\ invocations[j].returncode = 0

\* C7: auditing a list of files, a failure on one file is recorded inline
\* and the files after it are still audited: the report has one entry per
\* file within the ceiling, in list order, the assistant is invoked for every
\* such file that can be read, and the handler returns the report
OneEntryPerFile ==
    (Finished("security_audit") /\ io.kind = "dir") =>
        /\ outcome.kind = "returned"
        /\ Payload[1] = CHECK_MARK
        /\ IsSubstr(Join(<<"\n\n">>, audit_results), Payload)
        /\ Len(audit_results) = Capped
        /\ \A i \in 1..Capped :
               /\ IsSubstr(io.listing[i].path, audit_results[i])
               /\ i \notin Readable => audit_results[i][1] = CROSS_MARK
        /\ Len(invocations) = Cardinality(Readable)
        /\ \A j \in 1..Len(invocations) :
               /\ IsSubstr(io.listing[NthReadable(j)].path, invocations[j].args[2])
               /\ audit_results[NthReadable(j)][1] =
                      IF Exit0(j) THEN FILE_FOLDER ELSE CROSS_MARK

\* a failure on the first file, and a later file audited successfully
AuditedPastFailure ==
    /\ Finished("security_audit")
    /\ io.kind = "dir"
    /\ Len(audit_results) >= 10
    /\ audit_results[1][1] = CROSS_MARK
    /\ audit_results[10][1] = FILE_FOLDER

\* C8: an audit of a directory examines at most 10 files when the level is
\* "quick" and at most 20 when it is "deep", and invokes the assistant at
\* most that many times
AuditWithinCeiling ==
    (Finished("security_audit") /\ io.kind = "dir") =>
        /\ Len(audit_results) <= Ceiling
        /\ Len(invocations) <= Ceiling

\* more files than the ceiling, in a deep and in a quick audit
CeilingReached ==
    /\ Finished("security_audit")
    /\ io.kind = "dir"
    /\ Len(io.listing) > 20
    /\ Len(invocations) = Ceiling

\* C9, as claimed: once the assistant has exited with code 0, generate_tests
\* returns a success payload holding the assistant's output, whether or not
\* the tests could be saved
SaveFailureIsWarning ==
    ( /\ Finished("generate_tests")
      /\ invocations # <<>>
      /\ invocations[1].kind = "returned"
      /\ invocations[1].returncode = 0 ) =>
        /\ outcome.kind = "returned"
        /\ Payload[1] = CHECK_MARK
        /\ IsSubstr(invocations[1].stdout, Payload)

\* the last component of a path, and its split into base name and extension:
\* the extension starts at the component's last dot, if something other than
\* dots precedes that dot, and is empty otherwise
Component(p) ==
    CHOOSE c \in {SubSeq(p, i, Len(p)) : i \in 1..(Len(p) + 1)} :
        /\ ~HasToken(c, "/")
        /\ Len(c) < Len(p) => p[Len(p) - Len(c)] = "/"

Extension(c) ==
    LET dots == {i \in 1..Len(c) : c[i] = "." /\ \A k \in (i + 1)..Len(c) : c[k] # "."}
    IN  IF dots = {} THEN <<>>
        ELSE LET d == CHOOSE i \in dots : TRUE
             IN  IF \A k \in 1..(d - 1) : c[k] = "." THEN <<>>
                 ELSE SubSeq(c, d, Len(c))

BaseName(c) == SubSeq(c, 1, Len(c) - Len(Extension(c)))

\* the name the mapping gives
MappedName(base, ext) ==
    CASE ext \in {<<".", "js">>, <<".", "ts">>, <<".", "jsx">>, <<".", "tsx">>} ->
             base \o <<".", "test">> \o ext
      [] ext = <<".", "py">>   -> <<"test_">> \o base \o <<".", "py">>
      [] ext = <<".", "java">> -> base \o <<"Test", ".", "java">>
      [] OTHER                 -> base \o <<"_test">> \o ext

\* C10: generate_tests writes the assistant's output to ./tests/<name>,
\* <name> being given by the mapping from the base name and the extension of
\* the source file's last component, whatever directory the source is in
TestFileNamed ==
    (Finished("generate_tests") /\ written # <<>>) =>
        LET c == Component(arguments["source_file"])
        IN  /\ written[1] = <<".", "/", "tests", "/">>
                              \o MappedName(BaseName(c), Extension(c))
            /\ written[2] = invocations[1].stdout
            /\ IsSubstr(written[1], Payload)

\* a python source in a directory of its own
TestFileWritten ==
    /\ Finished("generate_tests")
    /\ arguments["source_file"] = <<"x", "/", "x", ".", "py">>
    /\ written # <<>>
    /\ written[1] = <<".", "/", "tests", "/", "test_", "x", ".", "py">>

\* the parameters the catalog declares for a tool, the path parameter first
Parameters(tool) ==
    CASE tool = "review_code"          -> <<"file_path", "review_type">>
      [] tool = "generate_tests"       -> <<"source_file", "test_framework",
                                            "coverage_level">>
      [] tool = "security_audit"       -> <<"target_path", "audit_level">>
      [] tool = "performance_analysis" -> <<"file_path", "language">>
      [] tool = "code_quality_report"  -> <<"project_path", "include_metrics">>
      [] tool = "ask_gemini"           -> <<"prompt", "include_all_files">>

\* the text of a parameter of the finished call as a payload shows it: the
\* value given or, for a parameter left out, its default
Echoed(key) ==
    CASE key = "include_metrics"   -> StrBool(Get(arguments, key, TRUE))
      [] key = "include_all_files" -> StrBool(Get(arguments, key, FALSE))
      [] key = "review_type"       -> Get(arguments, key, <<"general">>)
      [] key = "test_framework"    -> Get(arguments, key, <<"jest">>)
      [] key = "coverage_level"    -> Get(arguments, key, <<"comprehensive">>)
      [] key = "audit_level"       -> Get(arguments, key, <<"quick">>)
      [] OTHER                     -> arguments[key]

\* C11, as claimed: every payload a handler returns, for a success and for a
\* failure alike, contains each parameter the caller gave
EchoesParameters ==
    \A tool \in ToolNames :
        (Finished(tool) /\ outcome.kind = "returned") =>
            \A key \in DOMAIN arguments : IsSubstr(Echoed(key), Payload)

\* C11, amended: every success payload of the five file-based handlers
\* contains the path parameter and each option parameter, as given or as
\* defaulted, and every not-found payload of theirs contains the path
EchoesOnSuccessAndNotFound ==
    \A tool \in ToolNames \ {"ask_gemini"} :
        (Finished(tool) /\ outcome.kind = "returned") =>
            /\ Payload[1] = CHECK_MARK =>
                   \A i \in DOMAIN Parameters(tool) :
                       IsSubstr(Echoed(Parameters(tool)[i]), Payload)
            /\ io.kind = "missing" =>
                   IsSubstr(Echoed(Parameters(tool)[1]), Payload)

\* a review that succeeded, of a type that is not the default
ReviewTypeEchoed ==
    /\ Finished("review_code")
    /\ outcome.kind = "returned"
    /\ Payload[1] = CHECK_MARK
    /\ "review_type" \in DOMAIN arguments
    /\ IsSubstr(arguments["review_type"], Payload)

\* C12: ask_gemini calls run_gemini_command once, with the arguments
\* --prompt, the prompt and --all_files when include_all_files is true, and
\* with --prompt and the prompt alone when it is false or not supplied
AllFilesFlagPassed ==
    Finished("ask_gemini") =>
        /\ Len(invocations) = 1
        /\ invocations[1].timeout = 120
        /\ IF "include_all_files" \in DOMAIN arguments
              /\ arguments["include_all_files"] = TRUE
           THEN invocations[1].args =
                    << <<"--prompt">>, arguments["prompt"], <<"--all_files">> >>
           ELSE invocations[1].args = << <<"--prompt">>, arguments["prompt"] >>

\* the flag given to a child that was launched
AllFilesFlagSeen ==
    /\ Finished("ask_gemini")
    /\ "include_all_files" \in DOMAIN arguments
    /\ arguments["include_all_files"] = TRUE
    /\ invocations # <<>>
    /\ invocations[1].spawned
    /\ Len(invocations[1].args) = 3
    /\ invocations[1].args[3] = <<"--all_files">>

\* the j-th run_gemini_command call returned and the exit code is not 0
NonZeroExit(j) == invocations[j].kind = "returned" /\ invocations[j].returncode # 0

\* a payload or report entry that tells the failure of the j-th call: it
\* begins with the failure glyph and holds the child's stderr, if any
TellsFailure(text, j) ==
    /\ text[1] = CROSS_MARK
    /\ text[1] # CHECK_MARK
    /\ invocations[j].stderr # <<>> => IsSubstr(invocations[j].stderr, text)

\* C13, as claimed: for every handler, security_audit included, a call in
\* which the child ran and exited with a non-zero code returns a failure
\* payload that holds the child's stderr when there is some
NonZeroExitFailsHandler ==
    \A tool \in ToolNames :
        Finished(tool) =>
            \A j \in DOMAIN invocations :
                NonZeroExit(j) =>
                    /\ outcome.kind = "returned"
                    /\ TellsFailure(Payload, j)

\* the entry of security_audit's report for the file of the j-th call
AuditEntryOf(j) ==
    IF io.kind = "dir" THEN audit_results[NthReadable(j)] ELSE audit_results[1]

\* C13, amended: in review_code, generate_tests, performance_analysis,
\* code_quality_report and ask_gemini a non-zero exit of the child gives a
\* failure payload holding the child's stderr when there is some;
\* security_audit records it as a failure entry, holding that stderr, of a
\* report that begins with the success glyph, also when every file fails
NonZeroExitFailsCallOrEntry ==
    \A tool \in ToolNames :
        Finished(tool) =>
            \A j \in DOMAIN invocations :
                NonZeroExit(j) =>
                    /\ outcome.kind = "returned"
                    /\ IF tool = "security_audit"
                       THEN /\ Payload[1] = CHECK_MARK
                            /\ TellsFailure(AuditEntryOf(j), j)
                            /\ IsSubstr(AuditEntryOf(j), Payload)
                       ELSE TellsFailure(Payload, j)

\* an audit of several files in which the child exits non-zero every time
EveryFileExitedNonZero ==
    /\ Finished("security_audit")
    /\ Len(invocations) >= 2
    /\ Len(audit_results) = Len(invocations)
    /\ \A j \in DOMAIN invocations : NonZeroExit(j)
    /\ invocations[1].stderr # <<>>
    /\ outcome.kind = "returned"

\* the fixed candidate directories, in list order
Candidates == <<npm_bin_path>> \o additional_paths

\* the entries of a search path, in order
Entries(path) == IF path = None THEN <<>> ELSE Split(path, ":")

\* how often a directory is an entry of a search path, and where first
Count(dir, path) == Cardinality({i \in DOMAIN Entries(path) : Entries(path)[i] = dir})
FirstAt(dir, path) ==
    CHOOSE i \in DOMAIN Entries(path) :
        /\ Entries(path)[i] = dir
        /\ \A k \in 1..(i - 1) : Entries(path)[k] # dir

\* C14, as claimed: the search path run_gemini_command builds has every
\* candidate directory as an entry; a candidate that the starting PATH does
\* not hold twice is not held twice; the candidates the construction adds
\* stand in their list order; and building again from the result changes
\* nothing
BuiltPathHoldsCandidatesInOrder ==
    \A r \in {invocations[j] : j \in DOMAIN invocations} :
        /\ \A i \in DOMAIN Candidates : Count(Candidates[i], r.env_PATH) >= 1
        /\ \A i \in DOMAIN Candidates :
               Count(Candidates[i], r.os_path) <= 1 =>
                   Count(Candidates[i], r.env_PATH) <= 1
        /\ \A i, k \in DOMAIN Candidates :
               ( /\ i < k
                 /\ Candidates[i] # Candidates[k]
                 /\ Count(Candidates[i], r.os_path) = 0
                 /\ Count(Candidates[k], r.os_path) = 0
                 /\ Count(Candidates[i], r.env_PATH) >= 1
                 /\ Count(Candidates[k], r.env_PATH) >= 1 ) =>
                   FirstAt(Candidates[i], r.env_PATH) < FirstAt(Candidates[k], r.env_PATH)
        /\ BuildEnvPath(r.env_PATH) = r.env_PATH

\* the first directory of a search path that holds an executable gemini, as
\* that file's path, or None
Lookup(path) ==
    LET hits == {i \in DOMAIN Entries(path) :
                    Entries(path)[i] # <<>>
                    /\ Entries(path)[i] \o <<"/", "gemini">> \in executables}
    IN  IF hits = {} THEN None
        ELSE Entries(path)[CHOOSE i \in hits : \A k \in hits : i <= k]
                 \o <<"/", "gemini">>

\* the candidates in priority order: the hardcoded paths, the expanded-home
\* variant, the lookup with the ambient PATH (os.defpath for an unset PATH)
Priority(os_path) ==
    << <<"/", "home", "/", "user", "/", ".npm-global", "/", "bin", "/", "gemini">>,
       <<"/", "usr", "/", "local", "/", "bin", "/", "gemini">>,
       <<"/", "usr", "/", "bin", "/", "gemini">>,
       home \o <<"/", ".npm-global", "/", "bin", "/", "gemini">>,
       Lookup(IF os_path = None THEN <<"/", "bin", ":", "/", "usr", "/", "bin">>
              ELSE os_path) >>

Qualifying(os_path) ==
    {i \in 1..5 : Priority(os_path)[i] # None /\ Priority(os_path)[i] \in executables}

\* C15: run_gemini_command resolves the first candidate in priority order
\* that exists and is executable; only when there is none does it look gemini
\* up with the PATH it has built, which leaves its mark on os.environ['PATH'];
\* and a child is launched exactly from a resolved path
FirstQualifyingCandidateWins ==
    \A r \in {invocations[j] : j \in DOMAIN invocations} :
        LET q == Qualifying(r.os_path)
        IN  /\ q # {} =>
                   /\ r.gemini = Priority(r.os_path)[CHOOSE i \in q : \A k \in q : i <= k]
                   /\ r.environ = r.os_path
            /\ q = {} =>
                   /\ r.gemini = Lookup(r.env_PATH)
                   /\ r.environ = IF r.os_path = None THEN <<>> ELSE r.os_path
            /\ r.gemini = None =>
                   r.kind = "raised" /\ r.exc_type = "FileNotFoundError"
            /\ r.spawned <=> (r.gemini # None /\ r.child.launch = "ok")
            /\ r.gemini # None => r.gemini \in executables

\* three candidates qualify, the lookup's among them, and the second
\* hardcoded path is resolved and launched
SecondHardcodedPathWins ==
    /\ invocations # <<>>
    /\ Cardinality(Qualifying(invocations[1].os_path)) = 3
    /\ 5 \in Qualifying(invocations[1].os_path)
    /\ Priority(invocations[1].os_path)[5] = OPT_TOOLS_BIN \o <<"/", "gemini">>
    /\ invocations[1].gemini = <<"/", "usr", "/", "local", "/", "bin", "/", "gemini">>
    /\ invocations[1].spawned

\* the j-th run_gemini_command call failed: not found, timed out, not
\* launched, or a non-zero exit
Failed(j) == invocations[j].kind = "raised" \/ NonZeroExit(j)

\* a payload or report entry that surfaces the failure of the j-th call
Surfaces(text, j) ==
    /\ text[1] \in {CROSS_MARK, ALARM_CLOCK}
    /\ IF invocations[j].kind = "raised"
       THEN \/ IsSubstr(invocations[j].msg, text)
            \/ /\ invocations[j].exc_type = "TimeoutExpired"
               /\ HasToken(text, " Gemini request timed out")
       ELSE invocations[j].stderr # <<>> => IsSubstr(invocations[j].stderr, text)

\* C16: in one call, each handler other than security_audit calls
\* run_gemini_command at most once, and security_audit at most once for each
\* file it audits, a different file each time; a call that failed is the last
\* one for its call or file, and the payload tells the failure
NoRetries ==
    \A tool \in ToolNames :
        Finished(tool) =>
            IF tool = "security_audit"
            THEN /\ Len(invocations) <= Len(audit_results)
                 /\ io.kind # "dir" => Len(invocations) <= 1
                 /\ io.kind = "dir" =>
                        /\ Len(invocations) = Cardinality(Readable)
                        /\ \A j \in DOMAIN invocations :
                               IsSubstr(io.listing[NthReadable(j)].path,
                                        invocations[j].args[2])
                 /\ \A j \in DOMAIN invocations :
                        Failed(j) =>
                            /\ Surfaces(AuditEntryOf(j), j)
                            /\ IsSubstr(AuditEntryOf(j), Payload)
            ELSE /\ Len(invocations) <= 1
                 /\ \A j \in DOMAIN invocations :
                        Failed(j) => Surfaces(Payload, j)

\* an audit of three files in which the first call timed out and every file
\* was given one call
NoSecondCallAfterTimeout ==
    /\ Finished("security_audit")
    /\ io.kind = "dir"
    /\ Len(io.listing) = 3
    /\ Len(invocations) = 3
    /\ invocations[1].exc_type = "TimeoutExpired"
    /\ Failed(2)

====
